---- MODULE Spec2Model ----
(***************************************************************************)
(* Human-in-the-loop approval graph of HITL-demo.                          *)
(*                                                                         *)
(* The compiled LangGraph graph (src/src/agent.py) has four nodes: agent,  *)
(* approval, tools, rejected.  Its state (src/src/schemas.py) is           *)
(* messages / approved / feedback, checkpointed per thread identifier by   *)
(* a MemorySaver.  Each node execution is one action; the conditional      *)
(* edge evaluated after a node is part of that node's action.              *)
(***************************************************************************)
EXTENDS Integers, Sequences, FiniteSets, TLC

(* ---------------------------------------------------------------------- *)
(* Bounds                                                                  *)
(* ---------------------------------------------------------------------- *)
MaxTurns == 3
MaxThreads == 2

Threads == 1..MaxThreads

(* ---------------------------------------------------------------------- *)
(* Messages                                                                *)
(* ---------------------------------------------------------------------- *)
NoId == "none"

SystemMessage(c) == [type |-> "system", content |-> c, tool_calls |-> <<>>, tool_call_id |-> NoId]
HumanMessage(c) == [type |-> "human", content |-> c, tool_calls |-> <<>>, tool_call_id |-> NoId]
AIMessage(c, tcs) == [type |-> "ai", content |-> c, tool_calls |-> tcs, tool_call_id |-> NoId]
ToolMessage(c, id) == [type |-> "tool", content |-> c, tool_calls |-> <<>>, tool_call_id |-> id]

get_system_prompt == "You are a helpful assistant with advanced web search capability."

DefaultFeedback == "The user rejected the tool call. Please revise your approach."
NudgeText == "Please provide a summary of the search results above."
ApprovalMessage == "Tool call(s) require approval"

(* A tool call as the model emits it (LangChain tool-call dict). *)
ToolCall(id, q) == [name |-> "search_web", args |-> q, id |-> id, type |-> "tool_call"]

CallA == ToolCall("call_a", "weather Paris today")
CallB == ToolCall("call_b", "weather Paris tomorrow")

(* What model.invoke may return: empty, text only, one call, text + two calls. *)
Responses ==
    { AIMessage("", <<>>),
      AIMessage("answer", <<>>),
      AIMessage("", <<CallA>>),
      AIMessage("searching", <<CallA, CallB>>) }

UserTexts == {"What's the weather in Paris today?"}

(* ---------------------------------------------------------------------- *)
(* Resume payloads: Python dicts with optional keys "approved" and         *)
(* "feedback", modelled as functions whose domain is the set of keys.      *)
(* ---------------------------------------------------------------------- *)
EmptyDict == [k \in {} |-> TRUE]

(* dict.get(key, default) *)
Get(d, key, default) == IF key \in DOMAIN d THEN d[key] ELSE default

(* cli_demo.handle_tool_approval: answer is the yes/no line, typed the feedback line *)
handle_tool_approval(answer, typed) ==
    IF answer \in {"yes", "y"}
    THEN ("approved" :> TRUE)
    ELSE ("approved" :> FALSE @@ "feedback" :> (IF typed = "" THEN DefaultFeedback ELSE typed))

(* streamlit_demo.handle_approval: the approval_response it builds *)
handle_approval(ok, fb) ==
    IF ok
    THEN ("approved" :> TRUE)
    ELSE ("approved" :> FALSE @@ "feedback" :> (IF fb = "" THEN DefaultFeedback ELSE fb))

TypedFeedback == {"", "use tavily instead"}

DriverPayloads ==
    { handle_tool_approval(a, f) : a \in {"yes", "no"}, f \in TypedFeedback }
    \cup { handle_approval(a, f) : a \in BOOLEAN, f \in TypedFeedback }

(* Every dict {approved?: bool, feedback?: str} a caller of the compiled   *)
(* graph may pass as Command(resume=...).                                  *)
RawPayloads ==
    { EmptyDict }
    \cup { ("approved" :> a) : a \in BOOLEAN }
    \cup { ("feedback" :> f) : f \in TypedFeedback }
    \cup { ("approved" :> a @@ "feedback" :> f) : a \in BOOLEAN, f \in TypedFeedback }

ResumePayloads == DriverPayloads \cup RawPayloads

(* Observation: the payload carries the key approved with the value True. *)
SaysApproved(approval_data) ==
    "approved" \in DOMAIN approval_data /\ approval_data["approved"] = TRUE

(* What the search_web tool hands back to ToolNode: a string, opaque to the graph. *)
SearchOutputs == {"[search_web output]"}

(* ---------------------------------------------------------------------- *)
(* State                                                                   *)
(* ---------------------------------------------------------------------- *)
VARIABLES
    thread_id,    \* the driver's current thread identifier
    messages,     \* checkpointed AgentState.messages, per thread
    approved,     \* checkpointed AgentState.approved, per thread
    feedback,     \* checkpointed AgentState.feedback, per thread
    next_node,    \* the node the thread's graph runs next, per thread
    interrupts,   \* value of the pending interrupt(), per thread
    gateLog,      \* observation: the suspensions of a thread and how each was resumed
    snapshot,     \* observation: the history at the thread's latest suspension
    lastResume,   \* observation: the payload of the thread's latest resume
    lastTurn,     \* observation: model inputs/outputs of the thread's latest agent_node call
    turns,        \* number of agent_node executions so far (bounded by MaxTurns)
    ui,           \* the front-end driver: its session state, the result it holds, what it showed
    search        \* one search_web call: its arguments, its progress, its provider traffic

vars == <<thread_id, messages, approved, feedback, next_node, interrupts,
          gateLog, snapshot, lastResume, lastTurn, turns, ui, search>>

(* the parts of the state the graph's nodes never touch *)
outside == <<ui, search>>

START == "__start__"
END == "__end__"
INTERRUPTED == "__interrupt__"

NoInterrupt == [tool_calls |-> <<>>, message |-> ""]
NoResume == ("none" :> TRUE)
NoTurn == [inputs |-> <<>>, outputs |-> <<>>, base |-> 0]

(* no front-end attached / no search_web call under way *)
NoUi == [driver |-> "none"]
NoSearch == [pc |-> "none"]

Last(s) == s[Len(s)]

(* ---------------------------------------------------------------------- *)
(* src/src/schemas.py, src/src/nodes.py: pure parts of the nodes           *)
(* ---------------------------------------------------------------------- *)

(* variant: the messages channel has no reducer, an update replaces the history *)
add_messages_overwrite(left, right) == right

(* add_messages reducer: every message of this graph carries a fresh id, so the update is appended *)
add_messages(left, right) == left \o right

(* variant: the model is handed the stored history as it is *)
ModelInputAsStored(state_messages) == state_messages

(* nodes.py 18-21: the message list handed to the model *)
ModelInput(state_messages) ==
    IF state_messages = <<>> \/ state_messages[1].type # "system"
    THEN <<SystemMessage(get_system_prompt)>> \o state_messages
    ELSE state_messages

(* nodes.py 25: response has neither content nor tool calls *)
IsEmptyResponse(response) == response.content = "" /\ response.tool_calls = <<>>

(* nodes.py 27 *)
has_tool_message(msgs) == \E i \in 1..Len(msgs) : msgs[i].type = "tool"

(* variant: the retry does not look for a tool result in the history *)
NeedsRetryOnAnyEmpty(response, msgs) == IsEmptyResponse(response)

(* nodes.py 25-29: the condition under which agent_node invokes the model again *)
NeedsRetry(response, msgs) == IsEmptyResponse(response) /\ has_tool_message(msgs)

prompt_message == HumanMessage(NudgeText)

(* variant: the prepended system message is written back to the history *)
AgentUpdateWithSystem(msgs, response, retry_response) ==
    <<msgs[1]>> \o (IF NeedsRetry(response, msgs)
                    THEN <<response, prompt_message, retry_response>>
                    ELSE <<response>>)

(* nodes.py 30-34: the "messages" update agent_node returns *)
AgentUpdate(msgs, response, retry_response) ==
    IF NeedsRetry(response, msgs)
    THEN <<response, prompt_message, retry_response>>
    ELSE <<response>>

(* variant: agent_node returns the messages only and leaves approved as it was *)
agent_node_return_messages_only(update) == ("messages" :> update)

(* nodes.py 32, 34: the partial state update agent_node returns *)
agent_node_return(update) == ("messages" :> update @@ "approved" :> FALSE)

(* nodes.py 23, 31: the inputs of the model invocations agent_node makes *)
AgentInvocations(msgs, response) ==
    IF NeedsRetry(response, msgs)
    THEN <<msgs, msgs \o <<prompt_message>>>>
    ELSE <<msgs>>

(* variant: a new user message is dispatched whatever the graph is doing *)
CanInvokeAnytime(node) == TRUE

(* cli_demo.main 146-164 / streamlit_demo.main 256-261: a new user message *)
(* is dispatched only when the previous run has returned without a pending *)
(* approval.                                                               *)
CanInvoke(node) == node \in {START, END}

(* variant: every model answer is sent to the approval gate *)
should_continue_always_approval(msgs) == "approval"

(* nodes.py 37-53 *)
should_continue(msgs) ==
    IF Last(msgs).tool_calls # <<>> THEN "approval" ELSE END

(* variant: only the first tool call is reported *)
tool_calls_info_first_only(last_message) ==
    [i \in 1..1 |->
        [name |-> last_message.tool_calls[i].name,
         args |-> last_message.tool_calls[i].args,
         id |-> last_message.tool_calls[i].id]]

(* nodes.py 69-75 *)
tool_calls_info(last_message) ==
    [i \in 1..Len(last_message.tool_calls) |->
        [name |-> last_message.tool_calls[i].name,
         args |-> last_message.tool_calls[i].args,
         id |-> last_message.tool_calls[i].id]]

(* nodes.py 77-80: the value handed to interrupt() *)
InterruptValue(last_message) ==
    [tool_calls |-> tool_calls_info(last_message), message |-> ApprovalMessage]

(* variant: a payload without the approved key counts as an approval *)
ResumeApprovedDefaultTrue(approval_data) == Get(approval_data, "approved", TRUE)

(* nodes.py 82 *)
ResumeApproved(approval_data) == Get(approval_data, "approved", FALSE)

(* nodes.py 83 *)
ResumeFeedback(approval_data) == Get(approval_data, "feedback", DefaultFeedback)

(* variant: the approval flag is ignored and every batch is routed to the tools *)
check_approval_always_tools(ok) == "tools"

(* nodes.py 90-102 *)
check_approval(ok) == IF ok THEN "tools" ELSE "rejected"

(* nodes.py 114-115 *)
feedback_message(fb) == HumanMessage(fb)

(* variant: a rejection ends the run instead of going back to the model *)
EdgeFromRejectedToEnd == END

(* agent.py 67-68: workflow.add_edge("tools", "agent"), workflow.add_edge("rejected", "agent") *)
EdgeFromTools == "agent"
EdgeFromRejected == "agent"

(* cli_demo.py 26-38 / streamlit_demo.py 59-64 *)
extract_tool_calls(interrupt_value) == interrupt_value.tool_calls

(* ToolNode: the calls of the latest AI message, in order *)
PendingCalls(msgs) == Last(msgs).tool_calls

(* variant: only the first call of the batch is executed *)
ToolResultsFirstOnly(calls, outs) ==
    [i \in 1..1 |-> ToolMessage(outs[i], calls[i].id)]

(* ToolNode: one ToolMessage per call, tagged with the call's id *)
ToolResults(calls, outs) ==
    [i \in 1..Len(calls) |-> ToolMessage(outs[i], calls[i].id)]

(* ---------------------------------------------------------------------- *)
(* Init                                                                    *)
(* ---------------------------------------------------------------------- *)
InitGraph ==
    /\ thread_id = 1
    /\ messages = [t \in Threads |-> <<>>]
    /\ approved = [t \in Threads |-> FALSE]
    /\ feedback = [t \in Threads |-> ""]
    /\ next_node = [t \in Threads |-> START]
    /\ interrupts = [t \in Threads |-> NoInterrupt]
    /\ gateLog = [t \in Threads |-> <<>>]
    /\ snapshot = [t \in Threads |-> <<>>]
    /\ lastResume = [t \in Threads |-> NoResume]
    /\ lastTurn = [t \in Threads |-> NoTurn]
    /\ turns = 0

(* the variables of the compiled graph and its checkpointer *)
graph == <<thread_id, messages, approved, feedback, next_node, interrupts,
           gateLog, snapshot, lastResume, lastTurn, turns>>

Init ==
    /\ InitGraph
    /\ ui = NoUi
    /\ search = NoSearch

(* ---------------------------------------------------------------------- *)
(* Actions                                                                 *)
(* ---------------------------------------------------------------------- *)

(* cli_demo.main 156-163 / streamlit_demo.send_message 103-110:            *)
(* agent.invoke(initial_state, config) on a thread that is not suspended.  *)
InvokeEffect(t, text) ==
    /\ messages' = [messages EXCEPT ![t] = add_messages(@, <<HumanMessage(text)>>)]
    /\ approved' = [approved EXCEPT ![t] = FALSE]
    /\ feedback' = [feedback EXCEPT ![t] = ""]
    /\ next_node' = [next_node EXCEPT ![t] = "agent"]
    /\ UNCHANGED <<interrupts, gateLog, snapshot, lastResume, lastTurn, turns>>

Invoke(t, text) ==
    /\ CanInvoke(next_node[t])
    /\ turns < MaxTurns
    /\ InvokeEffect(t, text)
    /\ UNCHANGED thread_id
    /\ UNCHANGED outside

(* nodes.agent_node followed by the conditional edge should_continue *)
AgentNode(t) ==
    /\ next_node[t] = "agent"
    /\ UNCHANGED outside
    /\ turns < MaxTurns
    /\ \E response \in Responses, retry_response \in Responses :
         LET msgs == ModelInput(messages[t])
             update == AgentUpdate(msgs, response, retry_response)
             inputs == AgentInvocations(msgs, response)
             outputs == IF Len(inputs) = 2 THEN <<response, retry_response>> ELSE <<response>>
         IN  /\ (Len(inputs) = 1 => retry_response = response)
             /\ messages' = [messages EXCEPT ![t] =
                               add_messages(@, agent_node_return(update)["messages"])]
             /\ approved' = [approved EXCEPT ![t] = Get(agent_node_return(update), "approved", @)]
             /\ next_node' = [next_node EXCEPT ![t] = should_continue(messages'[t])]
             /\ lastTurn' = [lastTurn EXCEPT ![t] =
                               [inputs |-> inputs, outputs |-> outputs, base |-> Len(messages[t])]]
    /\ turns' = turns + 1
    /\ UNCHANGED <<thread_id, feedback, interrupts, gateLog, snapshot, lastResume>>

(* nodes.human_approval_node, first execution: raises the interrupt (or,   *)
(* without tool calls, returns the rejection default)                      *)
ApprovalNode(t) ==
    /\ next_node[t] = "approval"
    /\ UNCHANGED outside
    /\ LET last_message == Last(messages[t])
       IN  IF last_message.tool_calls # <<>>
           THEN /\ interrupts' = [interrupts EXCEPT ![t] = InterruptValue(last_message)]
                /\ next_node' = [next_node EXCEPT ![t] = INTERRUPTED]
                /\ gateLog' = [gateLog EXCEPT ![t] =
                                 Append(@, [msg |-> Len(messages[t]), route |-> "pending", ok |-> FALSE])]
                /\ snapshot' = [snapshot EXCEPT ![t] = messages[t]]
                /\ UNCHANGED <<approved, feedback>>
           ELSE /\ approved' = [approved EXCEPT ![t] = FALSE]
                /\ feedback' = [feedback EXCEPT ![t] = ""]
                /\ next_node' = [next_node EXCEPT ![t] = check_approval(FALSE)]
                /\ UNCHANGED <<interrupts, gateLog, snapshot>>
    /\ UNCHANGED <<thread_id, messages, lastResume, lastTurn, turns>>

(* agent.invoke(Command(update=p, resume=p), config): the update is        *)
(* written to the checkpoint, human_approval_node runs again with          *)
(* interrupt() returning p, then the conditional edge check_approval.      *)
ResumeEffect(t, approval_data) ==
    /\ next_node[t] = INTERRUPTED
    /\ approved' = [approved EXCEPT ![t] = ResumeApproved(approval_data)]
    /\ feedback' = [feedback EXCEPT ![t] = ResumeFeedback(approval_data)]
    /\ next_node' = [next_node EXCEPT ![t] = check_approval(approved'[t])]
    /\ interrupts' = [interrupts EXCEPT ![t] = NoInterrupt]
    /\ gateLog' = [gateLog EXCEPT ![t] =
                     [@ EXCEPT ![Len(@)].route = next_node'[t],
                               ![Len(@)].ok = SaysApproved(approval_data)]]
    /\ lastResume' = [lastResume EXCEPT ![t] = approval_data]
    /\ UNCHANGED <<messages, snapshot, lastTurn, turns>>

Resume(t, approval_data) ==
    /\ ResumeEffect(t, approval_data)
    /\ UNCHANGED thread_id
    /\ UNCHANGED outside

(* ToolNode(tools), then the edge tools -> agent *)
ToolNode(t) ==
    /\ next_node[t] = "tools"
    /\ UNCHANGED outside
    /\ LET calls == PendingCalls(messages[t])
       IN  \E outs \in [1..Len(calls) -> SearchOutputs] :
             messages' = [messages EXCEPT ![t] = add_messages(@, ToolResults(calls, outs))]
    /\ next_node' = [next_node EXCEPT ![t] = EdgeFromTools]
    /\ UNCHANGED <<thread_id, approved, feedback, interrupts, gateLog, snapshot,
                   lastResume, lastTurn, turns>>

(* nodes.handle_rejection, then the edge rejected -> agent *)
HandleRejection(t) ==
    /\ next_node[t] = "rejected"
    /\ UNCHANGED outside
    /\ messages' = [messages EXCEPT ![t] = add_messages(@, <<feedback_message(feedback[t])>>)]
    /\ approved' = [approved EXCEPT ![t] = FALSE]
    /\ next_node' = [next_node EXCEPT ![t] = EdgeFromRejected]
    /\ UNCHANGED <<thread_id, feedback, interrupts, gateLog, snapshot,
                   lastResume, lastTurn, turns>>

(* streamlit_demo.clear_conversation: a fresh thread identifier *)
ClearConversation ==
    /\ thread_id < MaxThreads
    /\ UNCHANGED outside
    /\ next_node[thread_id] \in {START, END, INTERRUPTED}
    /\ thread_id' = thread_id + 1
    /\ UNCHANGED <<messages, approved, feedback, next_node, interrupts,
                   gateLog, snapshot, lastResume, lastTurn, turns>>

Next ==
    \/ \E text \in UserTexts : Invoke(thread_id, text)
    \/ AgentNode(thread_id)
    \/ ApprovalNode(thread_id)
    \/ \E approval_data \in ResumePayloads : Resume(thread_id, approval_data)
    \/ ToolNode(thread_id)
    \/ HandleRejection(thread_id)
    \/ ClearConversation

Spec == Init /\ [][Next]_vars

(* ---------------------------------------------------------------------- *)
(* One session: the driver keeps its thread identifier                     *)
(* ---------------------------------------------------------------------- *)
NextSession ==
    \/ \E text \in UserTexts : Invoke(thread_id, text)
    \/ AgentNode(thread_id)
    \/ ApprovalNode(thread_id)
    \/ \E approval_data \in ResumePayloads : Resume(thread_id, approval_data)
    \/ ToolNode(thread_id)
    \/ HandleRejection(thread_id)

SpecSession == Init /\ [][NextSession]_vars

(* The same session when the graph runtime runs every node that is due,    *)
(* the model answers every invocation and the human answers every          *)
(* suspension; nothing obliges the user to send another message.           *)
SpecLive ==
    /\ Init
    /\ [][NextSession]_vars
    /\ WF_vars(AgentNode(thread_id))
    /\ WF_vars(ApprovalNode(thread_id))
    /\ WF_vars(\E approval_data \in ResumePayloads : Resume(thread_id, approval_data))
    /\ WF_vars(ToolNode(thread_id))
    /\ WF_vars(HandleRejection(thread_id))

(* ---------------------------------------------------------------------- *)
(* Several sessions on one compiled graph, interleaved in any order        *)
(* ---------------------------------------------------------------------- *)

(* variant: every session's config names the same thread *)
ConfigThreadShared(session) == 1

(* cli_demo.py 143-144 / streamlit_demo.py 100: the thread a session's config names *)
ConfigThread(session) == session

(* sessions are numbered in the order of their first user message *)
Started(session) == next_node[ConfigThread(session)] # START

(* one operation of one session: a user message, a node of its run, a resume
   with a payload built by one of the two drivers *)
SessionStep(session) ==
    LET t == ConfigThread(session)
    IN  \/ /\ \A earlier \in 1..(session - 1) : Started(earlier)
           /\ \E text \in UserTexts : Invoke(t, text)
        \/ AgentNode(t)
        \/ ApprovalNode(t)
        \/ \E approval_data \in DriverPayloads : Resume(t, approval_data)
        \/ ToolNode(t)
        \/ HandleRejection(t)

NextSessions == \E session \in Threads : SessionStep(session)

SpecSessions == Init /\ [][NextSessions]_vars

(* ---------------------------------------------------------------------- *)
(* The drivers: cli_demo.py and streamlit_demo.py                          *)
(* ---------------------------------------------------------------------- *)
MaxResumes == 2

Drivers == {"cli", "streamlit"}

(* One entry of result["__interrupt__"]: an Interrupt object and its value *)
InterruptItem(is_dict, value) == [is_dict |-> is_dict, value |-> value]

(* What agent.invoke returns: the state's messages and, when the run was   *)
(* suspended, the key "__interrupt__" (here: a non-empty interrupt list).  *)
Result(msgs, interrupt_data) == [messages |-> msgs, interrupt |-> interrupt_data]

NoResult == Result(<<>>, <<>>)

HasInterrupt(result) == result.interrupt # <<>>

(* The result of a run of the compiled graph on thread t *)
GraphResult(t) ==
    Result(messages[t],
           IF next_node[t] = INTERRUPTED
           THEN <<InterruptItem(TRUE, interrupts[t])>>
           ELSE <<>>)

(* cli_demo.py 11-23, streamlit_demo.py 50-55 *)
is_tool_approval_request(interrupt_data) ==
    \E i \in 1..Len(interrupt_data) :
        interrupt_data[i].is_dict /\ "tool_calls" \in DOMAIN interrupt_data[i].value

(* cli_demo.py 26-38, streamlit_demo.py 58-64 applied to the whole list *)
extract_tool_calls_of(interrupt_data) ==
    IF is_tool_approval_request(interrupt_data)
    THEN LET first == CHOOSE i \in 1..Len(interrupt_data) :
                        /\ interrupt_data[i].is_dict
                        /\ "tool_calls" \in DOMAIN interrupt_data[i].value
                        /\ \A j \in 1..(i - 1) :
                              ~(interrupt_data[j].is_dict
                                /\ "tool_calls" \in DOMAIN interrupt_data[j].value)
         IN  extract_tool_calls(interrupt_data[first].value)
    ELSE <<>>

(* cli_demo.extract_final_message / streamlit_demo.py 88-93: the text of   *)
(* the last message (str(message) for a non-AI message is never empty)     *)
extract_final_message(result) ==
    LET final_message == Last(result.messages)
    IN  IF final_message.type = "ai" THEN final_message.content ELSE "[message]"

(* The driver's state between two user events *)
UiStart(driver) ==
    [driver |-> driver,
     pc |-> "idle",
     pending_approval |-> <<>>,
     agent_result |-> FALSE,
     agent_config |-> FALSE,
     result |-> NoResult,
     resumes |-> 0,
     reports |-> <<>>]

(* streamlit_demo.process_agent_response together with the append of its   *)
(* return value to the chat (send_message 113-114, handle_approval 143-144) *)
process_agent_response(u, result) ==
    IF HasInterrupt(result) /\ is_tool_approval_request(result.interrupt)
    THEN [u EXCEPT !.pending_approval = extract_tool_calls_of(result.interrupt),
                   !.agent_result = TRUE,
                   !.reports = Append(@, "approval_request")]
    ELSE [u EXCEPT !.pending_approval = <<>>,
                   !.agent_result = FALSE,
                   !.reports = IF extract_final_message(result) # ""
                               THEN Append(@, "assistant")
                               ELSE @]

(* streamlit_demo.main 256: the chat input is rendered only without a      *)
(* pending approval; cli_demo.main 147: input() at the top of every loop   *)
ChatInputOffered(u) == u.driver = "cli" \/ u.pending_approval = <<>>

(* streamlit_demo.main 245: the approve / reject buttons are rendered *)
ApprovalOffered(u) == u.driver = "streamlit" /\ u.pending_approval # <<>>

(* ---------------------------------------------------------------------- *)
(* The drivers' handling of one result of agent.invoke, for every result   *)
(* ---------------------------------------------------------------------- *)
ResultHistories ==
    { <<HumanMessage("hello"), AIMessage("answer", <<>>)>>,
      <<HumanMessage("hello"), AIMessage("", <<CallA>>)>>,
      <<HumanMessage("hello"), AIMessage("", <<CallA>>), ToolMessage("[search_web output]", CallA.id)>>,
      <<HumanMessage("hello"), AIMessage("", <<>>)>> }

InterruptLists ==
    { <<>>,
      <<InterruptItem(TRUE, InterruptValue(AIMessage("", <<CallA>>)))>>,
      <<InterruptItem(TRUE, InterruptValue(AIMessage("searching", <<CallA, CallB>>)))>>,
      <<InterruptItem(TRUE, [message |-> "Confirm the plan"])>>,
      <<InterruptItem(FALSE, [text |-> "continue?"])>>,
      <<InterruptItem(FALSE, [text |-> "continue?"]),
        InterruptItem(TRUE, InterruptValue(AIMessage("", <<CallA>>)))>> }

Results == { Result(m, i) : m \in ResultHistories, i \in InterruptLists }

UnknownSuspension(result) ==
    HasInterrupt(result) /\ ~is_tool_approval_request(result.interrupt)

InitResults ==
    /\ InitGraph
    /\ search = NoSearch
    /\ \E driver \in Drivers, result \in Results :
         ui = [UiStart(driver) EXCEPT !.pc = "returned", !.result = result]

(* cli_demo.process_interrupts, one pass of its while loop, and at its end *)
(* main 165-166, which prints the final message of the result              *)
CliProcessInterrupts ==
    /\ ui.driver = "cli"
    /\ ui.pc = "returned"
    /\ IF HasInterrupt(ui.result)
       THEN IF is_tool_approval_request(ui.result.interrupt)
            THEN /\ ui.resumes < MaxResumes
                 /\ \E next_result \in Results :
                      ui' = [ui EXCEPT !.result = next_result,
                                       !.resumes = @ + 1,
                                       !.reports = Append(@, "approval_request")]
            ELSE ui' = [ui EXCEPT !.pc = "idle",
                                  !.reports = @ \o <<"unknown_interrupt", "assistant">>]
       ELSE ui' = [ui EXCEPT !.pc = "idle", !.reports = Append(@, "assistant")]
    /\ UNCHANGED <<graph, search>>

(* streamlit_demo.process_agent_response on the result of agent.invoke *)
StProcessAgentResponse ==
    /\ ui.driver = "streamlit"
    /\ ui.pc = "returned"
    /\ ui' = [process_agent_response(ui, ui.result) EXCEPT !.pc = "idle"]
    /\ UNCHANGED <<graph, search>>

(* streamlit_demo.handle_approval 120-141 on a click of approve or reject: *)
(* the stored result is resumed and agent.invoke returns the next result   *)
StHandleApprovalResult ==
    /\ ApprovalOffered(ui)
    /\ ui.pc = "idle"
    /\ ui.agent_result
    /\ ui.resumes < MaxResumes
    /\ \E next_result \in Results :
         ui' = [ui EXCEPT !.pc = "returned", !.result = next_result, !.resumes = @ + 1]
    /\ UNCHANGED <<graph, search>>

NextResults ==
    \/ CliProcessInterrupts
    \/ StProcessAgentResponse
    \/ StHandleApprovalResult

SpecResults == InitResults /\ [][NextResults]_vars

(* ---------------------------------------------------------------------- *)
(* A driver running the compiled graph on its thread                       *)
(* ---------------------------------------------------------------------- *)
InitDrivers ==
    /\ InitGraph
    /\ search = NoSearch
    /\ \E driver \in Drivers : ui = UiStart(driver)

(* cli_demo.main 147-163 / streamlit_demo.main 256-261 with send_message   *)
(* 98-110: the user's text is sent to the graph with a fresh initial state *)
SendMessage(text) ==
    /\ ui.pc = "idle"
    /\ ChatInputOffered(ui)
    /\ turns < MaxTurns
    /\ InvokeEffect(thread_id, text)
    /\ ui' = [ui EXCEPT !.pc = "running", !.agent_config = TRUE, !.reports = <<>>]
    /\ UNCHANGED <<thread_id, search>>

(* the nodes of the graph while agent.invoke is running *)
RunNode ==
    /\ ui.pc = "running"
    /\ \/ AgentNode(thread_id)
       \/ ApprovalNode(thread_id)
       \/ ToolNode(thread_id)
       \/ HandleRejection(thread_id)

(* nodes.agent_node 23 / 31: model.invoke raises (network, quota). The     *)
(* node writes nothing, the checkpoint keeps agent as the node that is     *)
(* due, and the exception reaches the driver: cli_demo.main 168-170,       *)
(* streamlit_demo.send_message 116-117 and handle_approval 146-147.        *)
ModelRaises ==
    /\ ui.pc = "running"
    /\ next_node[thread_id] = "agent"
    /\ turns < MaxTurns
    /\ turns' = turns + 1
    /\ ui' = [ui EXCEPT !.pc = "idle", !.reports = Append(@, "error")]
    /\ UNCHANGED <<thread_id, messages, approved, feedback, next_node, interrupts,
                   gateLog, snapshot, lastResume, lastTurn, search>>

(* cli_demo.process_interrupts 93-99: the user answers the prompt and the  *)
(* graph is resumed inside the same turn                                   *)
CliApproval(answer, typed) ==
    /\ ui.driver = "cli"
    /\ ui.pc = "running"
    /\ is_tool_approval_request(GraphResult(thread_id).interrupt)
    /\ ResumeEffect(thread_id, handle_tool_approval(answer, typed))
    /\ ui' = [ui EXCEPT !.reports = Append(@, "approval_request")]
    /\ UNCHANGED <<thread_id, search>>

(* cli_demo.main 163-166: the run ended without interrupt, the final       *)
(* message is printed                                                      *)
CliPrintFinal ==
    /\ ui.driver = "cli"
    /\ ui.pc = "running"
    /\ next_node[thread_id] = END
    /\ ui' = [ui EXCEPT !.pc = "idle", !.reports = Append(@, "assistant")]
    /\ UNCHANGED <<graph, search>>

(* streamlit_demo.send_message 110-114 / handle_approval 141-144:          *)
(* agent.invoke returned, at the end of the run or at a suspension         *)
StReturn ==
    /\ ui.driver = "streamlit"
    /\ ui.pc = "running"
    /\ next_node[thread_id] \in {END, INTERRUPTED}
    /\ ui' = [process_agent_response(ui, GraphResult(thread_id)) EXCEPT !.pc = "idle"]
    /\ UNCHANGED <<graph, search>>

(* streamlit_demo.handle_approval on a click of approve or reject. On a    *)
(* suspended thread the graph resumes at the gate; on a thread whose run   *)
(* failed, Command(update=...) is written to the state and the node that   *)
(* was due runs again.                                                     *)
StHandleApproval(ok, fb) ==
    /\ ApprovalOffered(ui)
    /\ ui.pc = "idle"
    /\ ui.agent_result /\ ui.agent_config
    /\ LET approval_response == handle_approval(ok, fb)
           t == thread_id
       IN  IF next_node[t] = INTERRUPTED
           THEN ResumeEffect(t, approval_response)
           ELSE /\ approved' = [approved EXCEPT ![t] = Get(approval_response, "approved", @)]
                /\ feedback' = [feedback EXCEPT ![t] = Get(approval_response, "feedback", @)]
                /\ UNCHANGED <<messages, next_node, interrupts, gateLog, snapshot,
                               lastResume, lastTurn, turns>>
    /\ ui' = [ui EXCEPT !.pc = "running", !.reports = <<>>]
    /\ UNCHANGED <<thread_id, search>>

(* streamlit_demo.clear_conversation 150-159 *)
StClearConversation ==
    /\ ui.driver = "streamlit"
    /\ ui.pc = "idle"
    /\ thread_id < MaxThreads
    /\ thread_id' = thread_id + 1
    /\ ui' = [ui EXCEPT !.pending_approval = <<>>, !.agent_result = FALSE,
                        !.agent_config = FALSE, !.reports = <<>>]
    /\ UNCHANGED <<messages, approved, feedback, next_node, interrupts,
                   gateLog, snapshot, lastResume, lastTurn, turns, search>>

NextDrivers ==
    \/ \E text \in UserTexts : SendMessage(text)
    \/ RunNode
    \/ ModelRaises
    \/ \E answer \in {"yes", "no"}, typed \in TypedFeedback : CliApproval(answer, typed)
    \/ CliPrintFinal
    \/ StReturn
    \/ \E ok \in BOOLEAN, fb \in TypedFeedback : StHandleApproval(ok, fb)
    \/ StClearConversation

SpecDrivers == InitDrivers /\ [][NextDrivers]_vars

(* ---------------------------------------------------------------------- *)
(* src/src/tools.py: the search_web tool                                   *)
(* ---------------------------------------------------------------------- *)
MaxQueries == 2

QueryTexts == {"weather Paris today", "tavily pricing"}

(* The argument queries: a list of strings, or a bare string *)
QueryList(items) == [is_list |-> TRUE, items |-> items, text |-> ""]
BareQuery(text) == [is_list |-> FALSE, items |-> <<>>, text |-> text]

SeqsUpTo(S, n) == UNION { [1..k -> S] : k \in 0..n }

QueryInputs ==
    { QueryList(s) : s \in SeqsUpTo(QueryTexts, MaxQueries) }
        \cup { BareQuery(t) : t \in {"", "weather Paris today"} }

SearchBackends == {"serp", "tavily", "duckduckgo"}
BackendInputs == SearchBackends \cup {"bing"}
NumInputs == {-1, 0, 1, 5, 10, 11, 20, 21, 50}
EnvKeys == {"SERP_API_KEY", "TAVILY_API_KEY"}

(* What the provider does with the i-th request of a call *)
ProviderOutcomes == {"ok", "exception", "ratelimit"}
ExceptionText(outcome) == IF outcome = "ratelimit" THEN "429 ratelimit" ELSE "connection failed"

(* tools.py 104: the provider's error text carries a rate-limit signal *)
IsRateLimit(outcome) == outcome = "ratelimit"

(* Strings the tool returns, kept as the sequence of their pieces so that  *)
(* a prefix is a prefix of pieces; a JSON array is kept as its entries.    *)
Text(pieces) == [json |-> FALSE, items |-> <<>>, text |-> pieces]
Json(items) == [json |-> TRUE, items |-> items, text |-> <<>>]
NoOutput == Text(<<>>)

ErrNoQueries == Text(<<"ERROR", ":", " ", "No queries provided">>)
ErrMissingKey(name) == Text(<<"ERROR", ":", " ", name, " not found in environment variables">>)
ErrRateLimited ==
    Text(<<"ERROR", ":", " ", "DuckDuckGo rate limited. Please try again later or use 'tavily' or 'serp' backend.">>)
ErrUnknownBackend(backend) ==
    Text(<<"ERROR", ":", " ", "Unknown backend '", backend, "'. Use 'serp', 'tavily', or 'duckduckgo'">>)
ErrDuringSearch(e) == Text(<<"ERROR", " during search", ":", " ", e>>)

BeginsWith(out, pieces) ==
    /\ ~out.json
    /\ Len(out.text) >= Len(pieces)
    /\ \A i \in 1..Len(pieces) : out.text[i] = pieces[i]

Min(a, b) == IF a < b THEN a ELSE b
Max(a, b) == IF a > b THEN a ELSE b

(* One entry of all_results and one request sent to a provider *)
ResultSlot(query) == [query |-> query, kind |-> "result"]
ErrorSlot(query) == [query |-> query, kind |-> "error"]
Request(query, has_count, count) == [query |-> query, has_count |-> has_count, count |-> count]

(* What a backend function did: the string it returned or the exception    *)
(* it let through, the requests it sent, the variables it looked up and    *)
(* the num_results it was called with                                      *)
Returned(out, requests, lookups) ==
    [raised |-> FALSE, error |-> "", out |-> out, requests |-> requests, lookups |-> lookups,
     called |-> FALSE, received |-> 0]
Raised(e, requests, lookups) ==
    [raised |-> TRUE, error |-> e, out |-> NoOutput, requests |-> requests, lookups |-> lookups,
     called |-> FALSE, received |-> 0]

(* tools.py 27-45: the loop of _search_serp from query i on *)
RECURSIVE serp_loop(_, _, _, _, _, _)
serp_loop(queries, num_results, outcomes, i, all_results, requests) ==
    IF i > Len(queries)
    THEN Returned(Json(all_results), requests, <<"SERP_API_KEY">>)
    ELSE LET sent == Append(requests, Request(queries[i], TRUE, Min(num_results, 10)))
         IN  IF outcomes[i] = "ok"
             THEN serp_loop(queries, num_results, outcomes, i + 1,
                            Append(all_results, ResultSlot(queries[i])), sent)
             ELSE Raised(ExceptionText(outcomes[i]), sent, <<"SERP_API_KEY">>)

(* tools.py 11-45 *)
search_serp(queries, num_results, env, outcomes) ==
    LET done == IF "SERP_API_KEY" \notin env
                THEN Returned(ErrMissingKey("SERP_API_KEY"), <<>>, <<"SERP_API_KEY">>)
                ELSE serp_loop(queries, num_results, outcomes, 1, <<>>, <<>>)
    IN  [done EXCEPT !.called = TRUE, !.received = num_results]

(* tools.py 66-77: the loop of _search_tavily from query i on *)
RECURSIVE tavily_loop(_, _, _, _, _, _)
tavily_loop(queries, num_results, outcomes, i, all_results, requests) ==
    IF i > Len(queries)
    THEN Returned(Json(all_results), requests, <<"TAVILY_API_KEY">>)
    ELSE LET sent == Append(requests, Request(queries[i], TRUE, num_results))
         IN  IF outcomes[i] = "ok"
             THEN tavily_loop(queries, num_results, outcomes, i + 1,
                              Append(all_results, ResultSlot(queries[i])), sent)
             ELSE Raised(ExceptionText(outcomes[i]), sent, <<"TAVILY_API_KEY">>)

(* tools.py 48-77 *)
search_tavily(queries, num_results, env, outcomes) ==
    LET done == IF "TAVILY_API_KEY" \notin env
                THEN Returned(ErrMissingKey("TAVILY_API_KEY"), <<>>, <<"TAVILY_API_KEY">>)
                ELSE tavily_loop(queries, num_results, outcomes, 1, <<>>, <<>>)
    IN  [done EXCEPT !.called = TRUE, !.received = num_results]

(* tools.py 94-111: the loop of _search_duckduckgo from query i on *)
RECURSIVE duckduckgo_loop(_, _, _, _, _)
duckduckgo_loop(queries, outcomes, i, all_results, requests) ==
    IF i > Len(queries)
    THEN Returned(Json(all_results), requests, <<>>)
    ELSE LET sent == Append(requests, Request(queries[i], FALSE, 0))
         IN  IF outcomes[i] = "ok"
             THEN duckduckgo_loop(queries, outcomes, i + 1,
                                  Append(all_results, ResultSlot(queries[i])), sent)
             ELSE IF IsRateLimit(outcomes[i])
                  THEN Returned(ErrRateLimited, sent, <<>>)
                  ELSE duckduckgo_loop(queries, outcomes, i + 1,
                                       Append(all_results, ErrorSlot(queries[i])), sent)

(* tools.py 80-111: num_results is not used *)
search_duckduckgo(queries, num_results, env, outcomes) ==
    [duckduckgo_loop(queries, outcomes, 1, <<>>, <<>>)
        EXCEPT !.called = TRUE, !.received = num_results]

(* tools.py 130: not queries *)
NoQueries(queries) == IF queries.is_list THEN queries.items = <<>> ELSE queries.text = ""

(* tools.py 133-134 *)
AsList(queries) == IF queries.is_list THEN queries.items ELSE <<queries.text>>

(* tools.py 136 *)
clamp(num_results) == Max(1, Min(num_results, 20))

(* tools.py 138-148: the dispatch on backend inside try / except *)
dispatch(queries, backend, num_results, env, outcomes) ==
    LET done == IF backend = "serp" THEN search_serp(queries, num_results, env, outcomes)
                ELSE IF backend = "tavily" THEN search_tavily(queries, num_results, env, outcomes)
                ELSE IF backend = "duckduckgo" THEN search_duckduckgo(queries, num_results, env, outcomes)
                ELSE Returned(ErrUnknownBackend(backend), <<>>, <<>>)
    IN  IF done.raised
        THEN [done EXCEPT !.raised = FALSE, !.out = ErrDuringSearch(done.error)]
        ELSE done

(* variant: the list is handed to the backend without the check for emptiness *)
search_web_unchecked(queries, backend, num_results, env, outcomes) ==
    dispatch(AsList(queries), backend, clamp(num_results), env, outcomes)

(* tools.py 114-148 *)
search_web(queries, backend, num_results, env, outcomes) ==
    IF NoQueries(queries)
    THEN Returned(ErrNoQueries, <<>>, <<>>)
    ELSE dispatch(AsList(queries), backend, clamp(num_results), env, outcomes)

(* One call of search_web: its arguments, the environment it runs in and,  *)
(* once it has returned, what it did                                       *)
SearchCall(queries, backend, num_results, env, outcomes) ==
    [pc |-> "called", queries |-> queries, backend |-> backend, num_results |-> num_results,
     env |-> env, outcomes |-> outcomes,
     raised |-> FALSE, out |-> NoOutput, requests |-> <<>>, lookups |-> <<>>,
     called |-> FALSE, received |-> 0]

InitSearch ==
    /\ InitGraph
    /\ ui = NoUi
    /\ \E queries \in QueryInputs, backend \in BackendInputs, num_results \in NumInputs,
          env \in SUBSET EnvKeys, outcomes \in [1..MaxQueries -> ProviderOutcomes] :
         search = SearchCall(queries, backend, num_results, env, outcomes)

SearchWeb ==
    /\ search.pc = "called"
    /\ LET done == search_web(search.queries, search.backend, search.num_results,
                              search.env, search.outcomes)
       IN  search' = [search EXCEPT !.pc = "returned",
                                    !.raised = done.raised,
                                    !.out = done.out,
                                    !.requests = done.requests,
                                    !.lookups = done.lookups,
                                    !.called = done.called,
                                    !.received = done.received]
    /\ UNCHANGED <<graph, ui>>

NextSearch == SearchWeb

SpecSearch == InitSearch /\ [][NextSearch]_vars

(* ====================================================================== *)
(* Properties                                                              *)
(* ====================================================================== *)
HasCalls(m) == m.type = "ai" /\ m.tool_calls # <<>>

(* the gate-log entries of thread t that concern the message at index i *)
GateEntries(t, i) == { k \in 1..Len(gateLog[t]) : gateLog[t][k].msg = i }

(* messages i+1 .. i+n of thread t are the results of the n calls of message i, in order *)
ResultsFollow(t, i) ==
    LET calls == messages[t][i].tool_calls
    IN  /\ i + Len(calls) <= Len(messages[t])
        /\ \A k \in 1..Len(calls) :
             /\ messages[t][i + k].type = "tool"
             /\ messages[t][i + k].tool_call_id = calls[k].id

(* none of the n messages after message i is a tool result *)
NoResultFollows(t, i) ==
    \A k \in 1..Len(messages[t][i].tool_calls) :
        i + k <= Len(messages[t]) => messages[t][i + k].type # "tool"

(* C1: the tools node runs for a batch only after the graph suspended at   *)
(* the approval gate for that very assistant message and was resumed with  *)
(* approved = true; an approval of an earlier batch does not carry over to *)
(* a later one; a batch is executed whole or not at all.                   *)
C1_ApprovalGatesTools ==
    \A t \in Threads :
        /\ next_node[t] = "tools" =>
             /\ gateLog[t] # <<>>
             /\ Last(gateLog[t]).msg = Len(messages[t])
             /\ Last(gateLog[t]).ok
             /\ SaysApproved(lastResume[t])
             /\ approved[t] = TRUE
        /\ \A j \in 1..Len(messages[t]) :
             messages[t][j].type = "tool" =>
               \E i \in 1..(j - 1) :
                 /\ HasCalls(messages[t][i])
                 /\ j - i <= Len(messages[t][i].tool_calls)
                 /\ ResultsFollow(t, i)
                 /\ \E k \in GateEntries(t, i) : gateLog[t][k].ok
        /\ \A i \in 1..Len(messages[t]) :
             HasCalls(messages[t][i]) =>
               /\ ResultsFollow(t, i) \/ NoResultFollows(t, i)
               /\ (\E k \in GateEntries(t, i) :
                      gateLog[t][k].route # "pending" /\ ~gateLog[t][k].ok)
                    => NoResultFollows(t, i)

(* C1 witness: a first batch of two calls was approved and executed, a later batch was rejected and not executed *)
C1_Witness ==
    \E t \in Threads :
        /\ Len(gateLog[t]) >= 2
        /\ gateLog[t][1].ok /\ gateLog[t][1].route = "tools"
        /\ Len(messages[t][gateLog[t][1].msg].tool_calls) = 2
        /\ ResultsFollow(t, gateLog[t][1].msg)
        /\ ~gateLog[t][2].ok /\ gateLog[t][2].route = "rejected"
        /\ next_node[t] = "agent"
        /\ NoResultFollows(t, gateLog[t][2].msg)

(* C2: every assistant message with tool calls is followed, after exactly  *)
(* one suspension/resume cycle, by one tool result per call (approved) or  *)
(* by exactly one human feedback message (rejected), never both and never  *)
(* neither, before the model is invoked again.                             *)
C2_OneResolutionPerBatch ==
    \A t \in Threads : \A i \in 1..Len(messages[t]) :
        HasCalls(messages[t][i]) =>
          LET n == Len(messages[t][i].tool_calls)
              len == Len(messages[t])
              entries == GateEntries(t, i)
          IN  /\ Cardinality(entries) <= 1
              /\ \/ /\ i = len
                    /\ next_node[t] \in {"approval", INTERRUPTED, "tools", "rejected"}
                 \/ /\ \E k \in entries : gateLog[t][k].route = "tools"
                    /\ ResultsFollow(t, i)
                    /\ i + n < len => messages[t][i + n + 1].type = "ai"
                 \/ /\ \E k \in entries : gateLog[t][k].route = "rejected"
                    /\ i + 1 <= len
                    /\ messages[t][i + 1].type = "human"
                    /\ i + 1 < len => messages[t][i + 2].type = "ai"

(* C2 witness: one thread holds an approved batch with its results and a rejected batch with its feedback, each followed by the next model answer *)
C2_Witness ==
    \E t \in Threads : \E i, j \in 1..Len(messages[t]) :
        /\ HasCalls(messages[t][i]) /\ HasCalls(messages[t][j])
        /\ Len(messages[t][i].tool_calls) = 2
        /\ ResultsFollow(t, i)
        /\ i + 2 < Len(messages[t]) /\ messages[t][i + 3].type = "ai"
        /\ j + 1 < Len(messages[t])
        /\ messages[t][j + 1].type = "human" /\ messages[t][j + 2].type = "ai"

SystemCount(msgs) == Cardinality({ i \in 1..Len(msgs) : msgs[i].type = "system" })

TurnProcessed(t) == lastTurn[t] # NoTurn

(* the latest suspension of thread t has been resumed *)
GateResolved(t) == gateLog[t] # <<>> /\ Last(gateLog[t]).route # "pending"

(* C3 (as stated): once an agent turn has been processed the persisted     *)
(* history has a System message at index 0 and holds exactly one System    *)
(* message.                                                                *)
C3_HistoryStartsWithSystem ==
    \A t \in Threads :
        TurnProcessed(t) =>
            /\ messages[t][1].type = "system"
            /\ SystemCount(messages[t]) = 1

(* C3 (amended): the persisted history never holds a System message; on    *)
(* every executor call the System message is put in front of the history   *)
(* in the model's input only.                                              *)
C3_SystemOnlyInModelInput ==
    \A t \in Threads :
        /\ SystemCount(messages[t]) = 0
        /\ TurnProcessed(t) =>
             LET first_input == lastTurn[t].inputs[1]
             IN  /\ first_input[1] = SystemMessage(get_system_prompt)
                 /\ Tail(first_input) = SubSeq(messages[t], 1, lastTurn[t].base)

(* C3 witness: a session that went through an approval, a rejection and three agent turns *)
C3_Witness ==
    \E t \in Threads :
        /\ TurnProcessed(t)
        /\ Len(gateLog[t]) >= 2
        /\ \E k \in 1..Len(gateLog[t]) : gateLog[t][k].route = "tools"
        /\ \E k \in 1..Len(gateLog[t]) : gateLog[t][k].route = "rejected"
        /\ next_node[t] = END

(* C4 (as stated): after a resume with approved = true the state has       *)
(* approved = true and feedback = "".                                      *)
C4_ApproveClearsFeedback ==
    \A t \in Threads :
        (GateResolved(t) /\ SaysApproved(lastResume[t]) /\ next_node[t] = "tools") =>
            /\ approved[t] = TRUE
            /\ feedback[t] = ""

(* C5 (as stated): a resume carrying approved = false and feedback = ""    *)
(* makes rejection handling append a Human message with the default text.  *)
C5_EmptyFeedbackYieldsDefault ==
    \A t \in Threads :
        ( /\ GateResolved(t)
          /\ lastResume[t] = ("approved" :> FALSE @@ "feedback" :> "")
          /\ Len(messages[t]) > Last(gateLog[t]).msg ) =>
            messages[t][Last(gateLog[t]).msg + 1] = HumanMessage(DefaultFeedback)

(* C6: a resume whose payload has approved absent or false executes no     *)
(* tool, leaves approved false, appends exactly one Human message whose    *)
(* content is the supplied feedback (the default when the key is absent),  *)
(* and hands control to the agent node.                                    *)
C6_RejectionPath ==
    \A t \in Threads :
        (GateResolved(t) /\ ~SaysApproved(lastResume[t])) =>
            LET e == Last(gateLog[t])
                fb == Get(lastResume[t], "feedback", DefaultFeedback)
                len == Len(messages[t])
            IN  /\ e.route = "rejected"
                /\ next_node[t] # "tools"
                /\ NoResultFollows(t, e.msg)
                /\ next_node[t] = "rejected" =>
                     /\ approved[t] = FALSE
                     /\ feedback[t] = fb
                     /\ messages[t] = snapshot[t]
                /\ next_node[t] # "rejected" =>
                     /\ len >= e.msg + 1
                     /\ SubSeq(messages[t], 1, e.msg + 1) = snapshot[t] \o <<HumanMessage(fb)>>
                     /\ len > e.msg + 1 => messages[t][e.msg + 2].type = "ai"
                     /\ len = e.msg + 1 => (next_node[t] = "agent" /\ approved[t] = FALSE)

(* C6 witness: rejection handling has run after a resume that carried neither key *)
C6_Witness ==
    \E t \in Threads :
        /\ GateResolved(t)
        /\ lastResume[t] = EmptyDict
        /\ next_node[t] = "agent"
        /\ Len(messages[t]) = Last(gateLog[t]).msg + 1
        /\ Last(messages[t]) = HumanMessage(DefaultFeedback)

(* C7: agent_node invokes the model a second time exactly when the first   *)
(* response has neither text nor tool calls and the history holds a tool   *)
(* result; it then appends [first response, nudge, second response]; it    *)
(* never invokes a third time; otherwise it appends the one response.      *)
C7_RetryAtMostOnce ==
    \A t \in Threads :
        TurnProcessed(t) =>
            LET turn == lastTurn[t]
                calls == Len(turn.inputs)
                first == turn.outputs[1]
                history == SubSeq(messages[t], 1, turn.base)
                added == IF calls = 2 THEN 3 ELSE 1
            IN  /\ calls \in {1, 2}
                /\ Len(turn.outputs) = calls
                /\ (calls = 2) <=>
                     /\ first.content = "" /\ first.tool_calls = <<>>
                     /\ \E i \in 1..Len(history) : history[i].type = "tool"
                /\ Len(messages[t]) >= turn.base + added
                /\ next_node[t] \in {"approval", INTERRUPTED, END} =>
                     Len(messages[t]) = turn.base + added
                /\ calls = 1 => messages[t][turn.base + 1] = first
                /\ calls = 2 =>
                     SubSeq(messages[t], turn.base + 1, turn.base + 3)
                       = <<first, HumanMessage(NudgeText), turn.outputs[2]>>

(* C7 witness: a retry whose second response is empty too, after which the graph has exited *)
C7_Witness ==
    \E t \in Threads :
        /\ TurnProcessed(t)
        /\ Len(lastTurn[t].inputs) = 2
        /\ lastTurn[t].outputs[2] = AIMessage("", <<>>)
        /\ next_node[t] = END
        /\ Len(messages[t]) = lastTurn[t].base + 3

(* the edge thread t takes in a step that moves it *)
LegalEdge(t) ==
    /\ next_node[t] \in {START, END} => next_node'[t] = "agent"
    /\ next_node[t] = "agent" =>
         /\ next_node'[t] \in {"approval", END}
         /\ next_node'[t] = "approval" <=> Last(messages'[t]).tool_calls # <<>>
    /\ next_node[t] = "approval" => next_node'[t] = INTERRUPTED
    /\ next_node[t] = INTERRUPTED =>
         /\ next_node'[t] \in {"tools", "rejected"}
         /\ next_node'[t] = "tools" <=> approved'[t] = TRUE
    /\ next_node[t] \in {"tools", "rejected"} => next_node'[t] = "agent"

(* C8: the graph takes only the legal edges: entry at agent; agent to the  *)
(* gate exactly when the latest message carries tool calls, otherwise exit *)
(* (so at every exit the last message is an assistant message without tool *)
(* calls); gate to tools exactly when approved, otherwise to rejected;     *)
(* tools and rejected only to agent.                                       *)
C8_LegalEdges ==
    /\ [](\A t \in Threads :
            next_node[t] = END =>
              /\ Last(messages[t]).type = "ai"
              /\ Last(messages[t]).tool_calls = <<>>)
    /\ [][\A t \in Threads : next_node'[t] # next_node[t] => LegalEdge(t)]_vars

(* C8 witness: a run that exited after passing through both the tools node and the rejected node *)
C8_Witness ==
    \E t \in Threads :
        /\ next_node[t] = END
        /\ \E k \in 1..Len(gateLog[t]) : gateLog[t][k].route = "tools"
        /\ \E k \in 1..Len(gateLog[t]) : gateLog[t][k].route = "rejected"
        /\ Last(messages[t]) = AIMessage("answer", <<>>)

(* C9: a suspension unwinds to the caller with the interrupt value, and    *)
(* from the suspension until the gate has continued after the resume the   *)
(* thread's history is exactly the history at the suspension, whatever     *)
(* happens meanwhile and however many suspensions came before.             *)
C9_SuspensionPreservesHistory ==
    /\ [](\A t \in Threads :
            /\ next_node[t] = INTERRUPTED => interrupts[t] # NoInterrupt
            /\ next_node[t] \in {INTERRUPTED, "tools", "rejected"} =>
                 messages[t] = snapshot[t])
    /\ [][\A t \in Threads :
            next_node[t] = INTERRUPTED =>
              /\ messages'[t] = messages[t]
              /\ next_node'[t] \in {INTERRUPTED, "tools", "rejected"}]_vars

(* C9 witness: a thread resumed from its second suspension while an earlier thread stays suspended *)
C9_Witness ==
    \E t, u \in Threads :
        /\ t # u
        /\ next_node[u] = INTERRUPTED
        /\ Len(gateLog[t]) = 2
        /\ next_node[t] \in {"tools", "rejected"}
        /\ messages[t] = snapshot[t]

(* C10: the suspension payload lists every tool call of the latest         *)
(* assistant message and nothing else, in the order issued, each with its  *)
(* name, arguments and id, together with the fixed message.                *)
C10_InterruptListsCalls ==
    \A t \in Threads :
        next_node[t] = INTERRUPTED =>
            LET last_message == Last(messages[t])
                value == interrupts[t]
                listed == extract_tool_calls(value)
            IN  /\ last_message.type = "ai"
                /\ DOMAIN value = {"tool_calls", "message"}
                /\ value.message = ApprovalMessage
                /\ Len(listed) = Len(last_message.tool_calls)
                /\ \A i \in 1..Len(listed) :
                     /\ DOMAIN listed[i] = {"name", "args", "id"}
                     /\ listed[i].name = last_message.tool_calls[i].name
                     /\ listed[i].args = last_message.tool_calls[i].args
                     /\ listed[i].id = last_message.tool_calls[i].id

(* C10 witness: a suspension for a message with two different tool calls *)
C10_Witness ==
    \E t \in Threads :
        /\ next_node[t] = INTERRUPTED
        /\ Len(interrupts[t].tool_calls) = 2
        /\ interrupts[t].tool_calls[1].id # interrupts[t].tool_calls[2].id

(* what the checkpoint holds for thread t, and whether it is suspended *)
ThreadState(t) == <<messages[t], approved[t], feedback[t], next_node[t], interrupts[t]>>

(* C11: sessions are independent: an operation of one session leaves the   *)
(* history, approved flag, feedback and suspension status of every other   *)
(* session as they were, in any interleaving.                              *)
C11_SessionsIndependent ==
    [][\A other \in Threads :
         ThreadState(other)' # ThreadState(other) =>
           \A session \in Threads \ {other} : ~SessionStep(session)]_vars

(* C11 witness: one session resumed, ran its tools and exited while another stays suspended with its history intact *)
C11_Witness ==
    \E t, u \in Threads :
        /\ t # u
        /\ next_node[t] = INTERRUPTED
        /\ messages[t] = snapshot[t]
        /\ next_node[u] = END
        /\ \E k \in 1..Len(gateLog[u]) : gateLog[u][k].route = "tools"

IsPrefix(a, b) == Len(a) <= Len(b) /\ SubSeq(b, 1, Len(a)) = a

(* C12: the history is append-only: every step (model turn, retry, tool    *)
(* execution, rejection handling, suspension, resume, new user message)    *)
(* leaves the previous history as a prefix of the new one.                 *)
C12_HistoryAppendOnly ==
    [][\A t \in Threads : IsPrefix(messages[t], messages'[t])]_vars

(* C12 witness: a history that grew by a user message, tool results, a retry with its nudge and a rejection feedback *)
C12_Witness ==
    \E t \in Threads :
        LET h == messages[t]
        IN  /\ h # <<>> /\ h[1].type = "human"
            /\ \E i \in 1..Len(h) : h[i].type = "tool"
            /\ \E i \in 1..Len(h) : h[i] = HumanMessage(NudgeText)
            /\ GateResolved(t) /\ Last(gateLog[t]).route = "rejected"
            /\ Last(h) = HumanMessage(feedback[t])
            /\ next_node[t] = "agent"

(* C15: after every agent turn approved is false, hence at every           *)
(* suspension and at every exit; approved and feedback are (false, "") at  *)
(* the start of every new user turn.                                       *)
C15_ApprovedResetEachTurn ==
    /\ [](\A t \in Threads :
            next_node[t] \in {"approval", INTERRUPTED, END} => approved[t] = FALSE)
    /\ [][\A t \in Threads :
            /\ (next_node[t] = "agent" /\ next_node'[t] # "agent") => approved'[t] = FALSE
            /\ (CanInvoke(next_node[t]) /\ next_node'[t] = "agent") =>
                  (approved'[t] = FALSE /\ feedback'[t] = "")]_vars

(* C15 witness: a suspension reached by the agent turn that followed an approved and executed batch *)
C15_Witness ==
    \E t \in Threads :
        /\ Len(gateLog[t]) = 2
        /\ gateLog[t][1].route = "tools" /\ gateLog[t][1].ok
        /\ next_node[t] = INTERRUPTED
        /\ approved[t] = FALSE

InGate(t) == next_node[t] \in {"approval", INTERRUPTED, "tools", "rejected"}

UserMessages(t) ==
    { i \in 1..Len(messages[t]) :
        messages[t][i].type = "human" /\ messages[t][i].content \in UserTexts }

(* C16: within one user turn the graph exits only on a model answer        *)
(* without tool calls; every approve or reject cycle runs the executor     *)
(* again, and the executor runs whenever it is due (no step cap besides    *)
(* the bound MaxTurns of this model); so when the human answers every      *)
(* suspension the turn ends as soon as the model answers without tool      *)
(* calls.                                                                  *)
C16_LoopUntilAnswer ==
    /\ [][\A t \in Threads :
            (next_node'[t] = END /\ next_node[t] # END) =>
              /\ next_node[t] = "agent"
              /\ Last(messages'[t]).type = "ai"
              /\ Last(messages'[t]).tool_calls = <<>>]_vars
    /\ [][\A t \in Threads :
            (next_node[t] = "agent" /\ next_node'[t] # "agent"
               /\ Last(messages'[t]).tool_calls = <<>>) => next_node'[t] = END]_vars
    /\ [](\A t \in Threads :
            (t = thread_id /\ next_node[t] = "agent" /\ turns < MaxTurns)
              => ENABLED AgentNode(t))
    /\ InGate(thread_id) ~> (next_node[thread_id] = "agent")
    /\ (next_node[thread_id] = "agent" /\ turns < MaxTurns)
          ~> (next_node[thread_id] \in {"approval", END})

(* C16 witness: one user message whose turn has gone through as many suspensions as the model allows executor calls *)
C16_Witness ==
    \E t \in Threads :
        /\ Cardinality(UserMessages(t)) = 1
        /\ Len(gateLog[t]) = MaxTurns
        /\ \E k \in 1..Len(gateLog[t]) : gateLog[t][k].route = "tools"
        /\ \E k \in 1..Len(gateLog[t]) : gateLog[t][k].route = "rejected"
        /\ next_node[t] = INTERRUPTED


(* ---------------------------------------------------------------------- *)
(* C13 (as stated): when the result of a turn carries a suspension whose   *)
(* payload has no tool_calls key, the driver, terminal or reactive UI,     *)
(* reports the unknown interrupt and ends the turn without resuming: the   *)
(* result it holds stays the suspended one and no resume is issued.        *)
(* ---------------------------------------------------------------------- *)
Reported(u, what) == \E i \in 1..Len(u.reports) : u.reports[i] = what

C13_UnknownSuspensionReported ==
    /\ []((ui.pc = "idle" /\ UnknownSuspension(ui.result)) => Reported(ui, "unknown_interrupt"))
    /\ [][(ui.pc = "returned" /\ UnknownSuspension(ui.result)) =>
            (ui'.pc = "idle" /\ ui'.result = ui.result /\ ui'.resumes = ui.resumes)]_vars


(* ---------------------------------------------------------------------- *)
(* C14 (as stated): when the model raises during a turn, on the first      *)
(* invocation or on a resume after approval or rejection, the driver       *)
(* reports the error and then offers the input for the next user message;  *)
(* no state after an error is without a way to submit a message.           *)
(* ---------------------------------------------------------------------- *)
ErrorReported(u) == u.pc = "idle" /\ u.reports # <<>> /\ Last(u.reports) = "error"

C14_ErrorThenInputAccepted ==
    /\ [][(ui.pc = "running" /\ next_node[thread_id] = "agent"
           /\ next_node'[thread_id] = "agent" /\ turns' # turns) => ErrorReported(ui')]_vars
    /\ [](ErrorReported(ui) => ChatInputOffered(ui))


(* ---------------------------------------------------------------------- *)
(* C17 (as stated): in a search over several queries a provider exception  *)
(* on one query becomes an error entry in that query's slot and the other  *)
(* queries' results are still returned, on every backend; the call as a    *)
(* whole is given up only for a missing credential, before any request,    *)
(* and for a rate-limit signal.                                            *)
(* ---------------------------------------------------------------------- *)
Searched ==
    /\ search.pc = "returned"
    /\ ~NoQueries(search.queries)
    /\ search.backend \in SearchBackends

CredentialMissing ==
    \/ search.backend = "serp" /\ "SERP_API_KEY" \notin search.env
    \/ search.backend = "tavily" /\ "TAVILY_API_KEY" \notin search.env

RateLimitSeen == \E i \in 1..Len(search.requests) : IsRateLimit(search.outcomes[i])

C17_QueryFailureStaysInline ==
    Searched =>
        /\ CredentialMissing => (search.requests = <<>> /\ ~search.out.json)
        /\ (~CredentialMissing /\ ~RateLimitSeen) =>
              /\ search.out.json
              /\ Len(search.out.items) = Len(AsList(search.queries))
              /\ \A i \in 1..Len(search.out.items) :
                    /\ search.out.items[i].query = AsList(search.queries)[i]
                    /\ search.out.items[i].kind =
                          (IF search.outcomes[i] = "ok" THEN "result" ELSE "error")

(* ---------------------------------------------------------------------- *)
(* C18 (as stated): whatever the input and the backend's outcome,          *)
(* search_web returns and lets no exception through, and what it returns   *)
(* is a JSON array of results or a string that begins with "ERROR:".       *)
(* ---------------------------------------------------------------------- *)
C18_JsonOrErrorSentinel ==
    search.pc = "returned" =>
        /\ ~search.raised
        /\ search.out.json \/ BeginsWith(search.out, <<"ERROR", ":">>)

(* ---------------------------------------------------------------------- *)
(* C19: an empty query list yields the sentinel "ERROR: No queries         *)
(* provided" and no backend is called: no request goes to a provider and   *)
(* no credential is looked up, whatever the backend argument.              *)
(* ---------------------------------------------------------------------- *)
C19_EmptyQueriesNoBackendCall ==
    (search.pc = "returned" /\ search.queries = QueryList(<<>>)) =>
        /\ search.out = ErrNoQueries
        /\ ~search.called
        /\ search.requests = <<>>
        /\ search.lookups = <<>>

(* C19 witness: an empty list given for the serp backend without its credential has returned the no-queries sentinel *)
C19_Witness ==
    /\ search.pc = "returned"
    /\ search.queries = QueryList(<<>>)
    /\ search.backend = "serp"
    /\ "SERP_API_KEY" \notin search.env
    /\ search.out = ErrNoQueries

(* ---------------------------------------------------------------------- *)
(* C20 (as stated): the count that reaches the backend is the requested    *)
(* count clamped to 1..20, for every integer: below 1 it is 1, above 20    *)
(* it is 20, in between it is unchanged; no call is refused for its count. *)
(* ---------------------------------------------------------------------- *)
C20_CountClampedToBackend ==
    (Searched /\ ~CredentialMissing) =>
        /\ search.called
        /\ search.received = clamp(search.num_results)
        /\ search.received \in 1..20
        /\ search.num_results < 1 => search.received = 1
        /\ search.num_results > 20 => search.received = 20
        /\ search.num_results \in 1..20 => search.received = search.num_results
        /\ \A i \in 1..Len(search.requests) :
              search.requests[i].has_count =>
                  search.requests[i].count = clamp(search.num_results)


(* ---------------------------------------------------------------------- *)
(* C21 (as stated): every model invocation receives the whole history      *)
(* appended so far; in the retry the second invocation's input is the      *)
(* prior history, then the empty first response, then the nudge, which is  *)
(* the persisted history at that point without the leading System message. *)
(* ---------------------------------------------------------------------- *)
C21_InvocationsSeeFullHistory ==
    \A t \in Threads :
        TurnProcessed(t) =>
            LET turn == lastTurn[t]
            IN  /\ Tail(turn.inputs[1]) = SubSeq(messages[t], 1, turn.base)
                /\ Len(turn.inputs) = 2 =>
                     /\ Tail(turn.inputs[2])
                          = SubSeq(messages[t], 1, turn.base) \o <<turn.outputs[1], prompt_message>>
                     /\ Tail(turn.inputs[2]) = SubSeq(messages[t], 1, turn.base + 2)

(* ---------------------------------------------------------------------- *)
(* C22: every model invocation, first call and retry, in every turn of     *)
(* every session, receives a sequence that starts with a System message    *)
(* and holds exactly one System message.                                   *)
(* ---------------------------------------------------------------------- *)
C22_OneSystemMessageInEveryInput ==
    \A t \in Threads :
        TurnProcessed(t) =>
            \A k \in 1..Len(lastTurn[t].inputs) :
                LET input == lastTurn[t].inputs[k]
                IN  /\ input # <<>>
                    /\ input[1] = SystemMessage(get_system_prompt)
                    /\ SystemCount(input) = 1

(* C22 witness: two sessions have had their model invoked, one of them with a retry in a turn after its first *)
C22_Witness ==
    \E t, u \in Threads :
        /\ t # u
        /\ TurnProcessed(t) /\ TurnProcessed(u)
        /\ Len(lastTurn[t].inputs) = 2
        /\ lastTurn[t].base > 1
        /\ SystemCount(messages[t]) = 0

(* ---------------------------------------------------------------------- *)
(* C23 (as stated): in the reactive-UI driver pending_approval is set      *)
(* exactly when the session's graph is suspended at the approval gate,     *)
(* after any sequence of messages, approvals, rejections, model errors     *)
(* and clears; so no user message is dispatched to a suspended graph and   *)
(* no approve / reject resume is sent to a graph that is not suspended.    *)
(* ---------------------------------------------------------------------- *)
Suspended(t) == next_node[t] = INTERRUPTED

C23_PendingIffSuspended ==
    /\ []((ui.driver = "streamlit" /\ ui.pc = "idle") =>
            (ui.pending_approval # <<>> <=> Suspended(thread_id)))
    /\ [][(ui.driver = "streamlit" /\ ui.pc = "idle" /\ ui'.pc = "running") =>
            IF ApprovalOffered(ui)
            THEN Suspended(thread_id)
            ELSE ~Suspended(thread_id)]_vars

====
